---- MODULE Spec2Model ----
(***************************************************************************)
(* A model of backtrader_plotting/bokeh/bokeh.py: the plot-graph builder   *)
(* (_build_graph, _resolve_plotmaster), the page (FigurePage, plot, show,  *)
(* _reset), the layout assembler (_model_single, _model_tabs,              *)
(* _get_analyzer_tab) and the serve mode (run_optresult,                   *)
(* generate_model_server and its update callback).                         *)
(***************************************************************************)
EXTENDS Integers, Sequences, FiniteSets, TLC

VARIABLES
    links,          \* resolve: obj.plotinfo.plotmaster of every object
    robj,           \* resolve: the local obj of _resolve_plotmaster
    rin,            \* resolve: the argument of the call
    rpc,            \* resolve: "loop" | "done"
    rsteps,         \* resolve: iterations of the while loop so far
    cfg,            \* graph: the plot directives of the strategy's items
    data_graph,     \* graph: Bokeh._data_graph, a dict in insertion order
    volume_graphs,  \* graph: Bokeh._volume_graphs
    gpc,            \* graph: <<loop, index>> position inside _build_graph
    placed,         \* analyzer tab: the blocks of the analyzers looped over so far
    col_childs,     \* analyzer tab: the two lists of widgets, by their heights
    apanel,         \* analyzer tab: the value _get_analyzer_tab returned
    fp,             \* page: Bokeh._fp, the FigurePage
    iplot,          \* page: Bokeh._iplot, <<>> while it is None, else <<value>>
    num_plots,      \* page: Bokeh._num_plots
    scheme,         \* page: the scheme parameters and 'ipykernel' in sys.modules
    call,           \* page: the last call made on the Bokeh object and how it ended
    result,         \* serve: Bokeh._result
    children,       \* serve: r.children of the served layout
    gidx            \* serve: the local idx of generate_model_server, <<>> while unbound

vars == <<links, robj, rin, rpc, rsteps, cfg, data_graph, volume_graphs, gpc,
          placed, col_childs, apanel,
          fp, iplot, num_plots, scheme, call, result, children, gidx>>

None == "None"

(***************************************************************************)
(* The items of one strategy: strategy.datas, getobservers(),              *)
(* getindicators(), each in its iteration order.                           *)
(***************************************************************************)
DataSeq == <<"d1", "d2">>
ObsSeq == <<"o1">>
IndSeq == <<"i1">>

Range(s) == {s[k] : k \in 1..Len(s)}

Datas == Range(DataSeq)
Observers == Range(ObsSeq)
Indicators == Range(IndSeq)
Items == Datas \cup Observers \cup Indicators

(***************************************************************************)
(* _resolve_plotmaster                                                     *)
(***************************************************************************)

\* One iteration of the while loop: pm = obj.plotinfo.plotmaster.
\* The loop breaks when pm is None, otherwise obj = pm.
ResolveBreaks_OneEarly(pm, obj) ==
    IF pm[obj] = None THEN TRUE ELSE pm[pm[obj]] = None

ResolveBreaks(pm, obj) == pm[obj] = None

ResolveNext(pm, obj) == pm[obj]

\* The whole call, for a plotmaster relation without cycles.
RECURSIVE ResolveLoop(_, _)
ResolveLoop(pm, obj) ==
    IF ResolveBreaks(pm, obj) THEN obj ELSE ResolveLoop(pm, ResolveNext(pm, obj))

ResolvePlotmaster(pm, obj) ==
    IF obj = None THEN None ELSE ResolveLoop(pm, obj)

\* Objects reachable from obj by following plotmaster links (obj included).
RECURSIVE ChainFrom(_, _, _)
ChainFrom(pm, obj, seen) ==
    IF obj = None \/ obj \in seen THEN seen
    ELSE ChainFrom(pm, pm[obj], seen \cup {obj})

RECURSIVE HitsCycle(_, _, _)
HitsCycle(pm, obj, seen) ==
    IF obj = None THEN FALSE
    ELSE IF obj \in seen THEN TRUE
    ELSE HitsCycle(pm, pm[obj], seen \cup {obj})

Acyclic(pm) == \A x \in DOMAIN pm : ~HitsCycle(pm, x, {})

(***************************************************************************)
(* The call _resolve_plotmaster(rin), one loop iteration per step.         *)
(***************************************************************************)
MaxResolveSteps == 6

graphVars == <<cfg, data_graph, volume_graphs, gpc>>
tabVars == <<placed, col_childs, apanel>>
pageVars == <<fp, iplot, num_plots, scheme, call>>
serveVars == <<result, children, gidx>>

\* The values of the variables of the parts a specification leaves alone.
IdleResolve ==
    links = None /\ robj = None /\ rin = None /\ rpc = "idle" /\ rsteps = 0

IdleGraph ==
    cfg = None /\ data_graph = <<>> /\ volume_graphs = <<>> /\ gpc = <<"idle", 0>>

IdleTab ==
    placed = <<>> /\ col_childs = <<>> /\ apanel = "idle"

IdlePage ==
    fp = None /\ iplot = <<>> /\ num_plots = 0 /\ scheme = None /\ call = None

IdleServe ==
    result = [type |-> "NoneType"] /\ children = <<>> /\ gidx = <<>>
resolveVars == <<links, robj, rin, rpc, rsteps>>

InitResolve ==
    /\ links \in [Items -> Items \cup {None}]
    /\ rin \in Items \cup {None}
    /\ robj = rin
    /\ rpc = "call"
    /\ rsteps = 0
    /\ IdleGraph /\ IdleTab /\ IdlePage /\ IdleServe

\* if obj is None: return None
ResolveEnter ==
    /\ rpc = "call"
    /\ rpc' = IF robj = None THEN "done" ELSE "loop"
    /\ UNCHANGED <<links, robj, rin, rsteps>>
    /\ UNCHANGED <<graphVars, tabVars, pageVars, serveVars>>

\* while True: pm = obj.plotinfo.plotmaster; break if pm is None, else obj = pm
ResolveIter ==
    /\ rpc = "loop"
    /\ rsteps < MaxResolveSteps
    /\ rsteps' = rsteps + 1
    /\ \/ /\ ResolveBreaks(links, robj)
          /\ rpc' = "done"
          /\ robj' = robj
       \/ /\ ~ResolveBreaks(links, robj)
          /\ robj' = ResolveNext(links, robj)
          /\ rpc' = "loop"
    /\ UNCHANGED <<links, rin>>
    /\ UNCHANGED <<graphVars, tabVars, pageVars, serveVars>>

NextResolve == ResolveEnter \/ ResolveIter

SpecResolve == InitResolve /\ [][NextResolve]_vars

(***************************************************************************)
(* C2: for a non-null object whose plot-master chain is acyclic,           *)
(* _resolve_plotmaster terminates (the loop runs at most once per object   *)
(* of the chain and is never cut short) and returns the single root of     *)
(* the chain: an object reachable from the input whose own plotmaster is   *)
(* null, the only such object of the chain; for a null input it returns    *)
(* null.                                                                   *)
(***************************************************************************)
C2_ResolveReturnsRoot ==
    /\ (rin = None /\ rpc = "done") => (robj = None /\ rsteps = 0)
    /\ (rin # None /\ ~HitsCycle(links, rin, {})) =>
          LET chain == ChainFrom(links, rin, {}) IN
          /\ rsteps <= Cardinality(chain)
          /\ rpc = "loop" => rsteps < Cardinality(chain)
          /\ robj \in chain
          /\ rpc = "done" =>
                /\ links[robj] = None
                /\ \A x \in chain : links[x] = None => x = robj

\* A chain of three links has been followed to its root.
C2_Witness ==
    /\ rpc = "done"
    /\ rin # None
    /\ ~HitsCycle(links, rin, {})
    /\ Cardinality(ChainFrom(links, rin, {})) = 4
    /\ robj # rin

(***************************************************************************)
(* _build_graph.  _data_graph is a Python dict: a sequence of              *)
(* [key, val] entries in insertion order, one entry per key.               *)
(***************************************************************************)
DictHas(g, k) == \E n \in 1..Len(g) : g[n].key = k

DictGet(g, k) == g[CHOOSE n \in 1..Len(g) : g[n].key = k].val

\* g[k] = v: an existing key keeps its position and gets the new value.
DictSet(g, k, v) ==
    IF DictHas(g, k)
    THEN [n \in 1..Len(g) |-> IF g[n].key = k THEN [key |-> k, val |-> v] ELSE g[n]]
    ELSE Append(g, [key |-> k, val |-> v])

\* if k not in g: g[k] = []
\* g[k].append(x)
DictAppend(g, k, x) ==
    LET g1 == IF DictHas(g, k) THEN g ELSE DictSet(g, k, <<>>)
    IN  DictSet(g1, k, Append(DictGet(g1, k), x))

\* The body of "for d in datas" for one d: the new _data_graph.
GraphData(c, g, d) ==
    IF ~c.plot[d] THEN g
    ELSE LET pmaster == ResolvePlotmaster(c.plotmaster, c.plotmaster[d]) IN
         IF pmaster = None THEN DictSet(g, d, <<>>)
         ELSE DictAppend(g, pmaster, d)

\* The body of "for d in datas" for one d: the new _volume_graphs.
GraphVolume(c, v, d) ==
    IF c.plot[d] /\ c.volume /\ ~c.voloverlay THEN Append(v, d) ELSE v

\* The body of "for o in obs" for one o.
GraphObs(c, g, o) ==
    IF ~c.plot[o] \/ c.plotskip[o] THEN g
    ELSE IF c.subplot[o] THEN DictSet(g, o, <<>>)
    ELSE LET pmaster == ResolvePlotmaster(c.plotmaster,
                            IF c.plotmaster[o] # None THEN c.plotmaster[o] ELSE c.data[o])
         IN  DictAppend(g, pmaster, o)

\* The body of "for i in inds" for one i.
GraphInd(c, g, i) ==
    IF ~c.hasplotinfo[i] THEN g
    ELSE IF ~c.plot[i] \/ c.plotskip[i] THEN g
    ELSE IF c.subplot[i] THEN DictSet(g, i, <<>>)
    ELSE LET pmaster == ResolvePlotmaster(c.plotmaster,
                            IF c.plotmaster[i] # None THEN c.plotmaster[i] ELSE c.data[i])
         IN  DictAppend(g, pmaster, i)

\* The plot directives a strategy's items can carry.  A data series is
\* drawn on a data series; an observer or indicator on any other item.
\* The plotmaster links have no cycle (on a cycle _resolve_plotmaster
\* does not return).
PlotmasterLinks ==
    {pm \in [Items -> Items \cup {None}] :
        /\ \A d \in Datas : pm[d] \in (Datas \ {d}) \cup {None}
        /\ \A x \in Items : pm[x] # x
        /\ Acyclic(pm)}

\* An indicator without plotinfo (a LineSingle) is nobody's plot master.
Configs ==
  {c \in
    [plot : [Items -> BOOLEAN],
     plotskip : {f \in [Items -> BOOLEAN] : \A d \in Datas : ~f[d]},
     subplot : {f \in [Items -> BOOLEAN] : \A d \in Datas : ~f[d]},
     hasplotinfo : {f \in [Items -> BOOLEAN] : \A x \in Datas \cup Observers : f[x]},
     plotmaster : PlotmasterLinks,
     data : {f \in [Items -> Datas \cup {None}] :
                \A x \in Items : (f[x] = None) <=> (x \in Datas)},
     volume : {TRUE},
     voloverlay : BOOLEAN] :
    \A x \in Items : ~c.hasplotinfo[x] =>
        /\ c.plotmaster[x] = None
        /\ \A y \in Items : c.plotmaster[y] # x}

InitGraph ==
    /\ cfg \in Configs
    /\ data_graph = None
    /\ volume_graphs = None
    /\ gpc = <<"enter", 0>>
    /\ IdleResolve /\ IdleTab /\ IdlePage /\ IdleServe

\* The position after the element at index k of a loop's sequence.
AfterStep(loop, k) ==
    LET seqs == [datas |-> DataSeq, obs |-> ObsSeq, inds |-> IndSeq]
        nxt == [datas |-> "obs", obs |-> "inds", inds |-> "done"]
    IN  IF k < Len(seqs[loop]) THEN <<loop, k + 1>>
        ELSE IF nxt[loop] = "done" THEN <<"done", 0>>
        ELSE IF Len(seqs[nxt[loop]]) > 0 THEN <<nxt[loop], 1>>
        ELSE IF nxt[loop] = "obs" /\ Len(IndSeq) > 0 THEN <<"inds", 1>>
        ELSE <<"done", 0>>

\* self._data_graph = {}; self._volume_graphs = []
BuildGraphEnter ==
    /\ gpc[1] = "enter"
    /\ data_graph' = <<>>
    /\ volume_graphs' = <<>>
    /\ gpc' = <<"datas", 1>>
    /\ UNCHANGED cfg
    /\ UNCHANGED <<resolveVars, tabVars, pageVars, serveVars>>

BuildGraphData ==
    /\ gpc[1] = "datas"
    /\ data_graph' = GraphData(cfg, data_graph, DataSeq[gpc[2]])
    /\ volume_graphs' = GraphVolume(cfg, volume_graphs, DataSeq[gpc[2]])
    /\ gpc' = AfterStep("datas", gpc[2])
    /\ UNCHANGED cfg
    /\ UNCHANGED <<resolveVars, tabVars, pageVars, serveVars>>

BuildGraphObs ==
    /\ gpc[1] = "obs"
    /\ data_graph' = GraphObs(cfg, data_graph, ObsSeq[gpc[2]])
    /\ gpc' = AfterStep("obs", gpc[2])
    /\ UNCHANGED <<cfg, volume_graphs>>
    /\ UNCHANGED <<resolveVars, tabVars, pageVars, serveVars>>

BuildGraphInd ==
    /\ gpc[1] = "inds"
    /\ data_graph' = GraphInd(cfg, data_graph, IndSeq[gpc[2]])
    /\ gpc' = AfterStep("inds", gpc[2])
    /\ UNCHANGED <<cfg, volume_graphs>>
    /\ UNCHANGED <<resolveVars, tabVars, pageVars, serveVars>>

NextGraph == BuildGraphEnter \/ BuildGraphData \/ BuildGraphObs \/ BuildGraphInd

SpecGraph == InitGraph /\ [][NextGraph]_vars

\* What the claims call plottable: plot directive true and, for indicators
\* and observers, skip directive false.
Plottable(c, x) ==
    /\ c.hasplotinfo[x]
    /\ c.plot[x]
    /\ x \in Datas \/ ~c.plotskip[x]

\* The number of places of the graph that hold x: master keys and
\* positions of overlay lists.
RECURSIVE SumSeq(_)
SumSeq(s) == IF s = <<>> THEN 0 ELSE Head(s) + SumSeq(Tail(s))

Occurrences(g, x) ==
    SumSeq([n \in 1..Len(g) |->
              (IF g[n].key = x THEN 1 ELSE 0)
              + Cardinality({m \in 1..Len(g[n].val) : g[n].val[m] = x})])

(***************************************************************************)
(* C1: after _build_graph every plottable item is in exactly one           *)
(* destination: one master key or one position of one overlay list.        *)
(***************************************************************************)
C1_ExactlyOneDestination ==
    gpc[1] = "done" =>
        \A x \in Items : Plottable(cfg, x) => Occurrences(data_graph, x) = 1

(***************************************************************************)
(* C9: after _build_graph no item that is not plottable is in the graph,   *)
(* neither as a master key nor in an overlay list.                         *)
(***************************************************************************)
C9_HiddenNeverInGraph ==
    gpc[1] = "done" =>
        \A x \in Items : ~Plottable(cfg, x) => Occurrences(data_graph, x) = 0

(***************************************************************************)
(* _get_analyzer_tab.  A widget is modelled by its height (NoHeight or a   *)
(* number of pixels); the block of an analyzer is [table_header] +         *)
(* elements as the table generator returns them.                           *)
(***************************************************************************)
MaxBlocks == 3

\* The height of a widget that has none (x.height is None).
NoHeight == -1

WidgetHeights == {NoHeight, 0, 1, 2}

Blocks == {<<h>> : h \in WidgetHeights}
            \cup {<<h, e>> : h \in WidgetHeights, e \in WidgetHeights}

\* _get_column_row_count: sum([x.height for x in col if x.height is not None])
RECURSIVE GetColumnRowCount(_)
GetColumnRowCount(col) ==
    IF col = <<>> THEN 0
    ELSE (IF Head(col) = NoHeight THEN 0 ELSE Head(col)) + GetColumnRowCount(Tail(col))

\* col_idx = 0 if col0cnt <= col1cnt else 1 (columns are numbered 1 and 2 here)
ColIdx_Taller(cols) ==
    IF GetColumnRowCount(cols[1]) >= GetColumnRowCount(cols[2]) THEN 1 ELSE 2

ColIdx(cols) ==
    IF GetColumnRowCount(cols[1]) <= GetColumnRowCount(cols[2]) THEN 1 ELSE 2

\* col_childs[col_idx] += [table_header] + elements
PlaceBlock(cols, block) ==
    [cols EXCEPT ![ColIdx(cols)] = @ \o block]

\* The returned panel: a row of column1 and, when it has children, column2.
AnalyzerPanel(cols) ==
    IF Len(cols[2]) > 0 THEN <<cols[1], cols[2]>> ELSE <<cols[1]>>

\* _get_analyzer_tab as a function of the analyzers' blocks.
RECURSIVE PlaceAll(_, _)
PlaceAll(cols, blocks) ==
    IF blocks = <<>> THEN cols
    ELSE PlaceAll(PlaceBlock(cols, Head(blocks)), Tail(blocks))

GetAnalyzerTab(blocks) ==
    IF Len(blocks) = 0 THEN None ELSE AnalyzerPanel(PlaceAll(<<<<>>, <<>>>>, blocks))

InitTab ==
    /\ placed = <<>>
    /\ col_childs = <<<<>>, <<>>>>
    /\ apanel = "running"
    /\ IdleResolve /\ IdleGraph /\ IdlePage /\ IdleServe

\* One iteration of "for name, analyzer, strategycls, params in fp.analyzers".
AnalyzerTabPlace ==
    /\ apanel = "running"
    /\ Len(placed) < MaxBlocks
    /\ \E block \in Blocks :
          /\ col_childs' = PlaceBlock(col_childs, block)
          /\ placed' = Append(placed, block)
    /\ UNCHANGED apanel
    /\ UNCHANGED <<resolveVars, graphVars, pageVars, serveVars>>

\* The end of fp.analyzers: no panel for no analyzers, else the row of columns.
AnalyzerTabReturn ==
    /\ apanel = "running"
    /\ apanel' = IF Len(placed) = 0 THEN None ELSE AnalyzerPanel(col_childs)
    /\ UNCHANGED <<placed, col_childs>>
    /\ UNCHANGED <<resolveVars, graphVars, pageVars, serveVars>>

NextTab == AnalyzerTabPlace \/ AnalyzerTabReturn

SpecTab == InitTab /\ [][NextTab]_vars

Abs(n) == IF n < 0 THEN 0 - n ELSE n

\* The height of a block: the heights of its widgets that have one.
BlockHeight(block) ==
    SumSeq([k \in 1..Len(block) |-> IF block[k] = NoHeight THEN 0 ELSE block[k]])

TallestPlaced ==
    IF placed = <<>> THEN 0
    ELSE CHOOSE m \in {BlockHeight(placed[k]) : k \in 1..Len(placed)} :
            \A k \in 1..Len(placed) : BlockHeight(placed[k]) <= m

(***************************************************************************)
(* C3: after each analyzer block is placed, the cumulative heights of the  *)
(* two analyzer columns differ by at most the height of the tallest block  *)
(* placed so far.                                                          *)
(***************************************************************************)
C3_ColumnsBalanced ==
    apanel = "running" =>
        Abs(GetColumnRowCount(col_childs[1]) - GetColumnRowCount(col_childs[2]))
            <= TallestPlaced

\* Three blocks were placed, the last one in column 1 after a tie of
\* non-empty columns, and the columns differ by a whole block.
C3_Witness ==
    /\ apanel = "running"
    /\ Len(placed) = 3
    /\ GetColumnRowCount(col_childs[2]) > 0
    /\ GetColumnRowCount(col_childs[1]) - GetColumnRowCount(col_childs[2]) = TallestPlaced
    /\ TallestPlaced > 1

(***************************************************************************)
(* The page and the calls backtrader makes: plot, show, plot_result.       *)
(* Python values are records tagged with their type; a list is             *)
(* [type |-> "list", items |-> <<...>>].                                   *)
(***************************************************************************)
MaxPlots == 2
MaxShows == 2
MaxAnalyzers == 1

PyList(items) == [type |-> "list", items |-> items]

IsList(x) == x.type = "list"

\* The value None where the other values are objects.
NoneObj == [type |-> "NoneType"]

\* FigurePage.__init__
FigurePage == [figures |-> <<>>, cds |-> NoneObj, analyzers |-> <<>>, strategies |-> None]

\* _reset: self._fp = FigurePage()
Reset_KeepAnalyzers(page) == [FigurePage EXCEPT !.analyzers = page.analyzers]

Reset(page) == FigurePage

\* type(master), as _model_single and _model_tabs test it.
MasterType(x) ==
    IF x \in Datas THEN "DataBase"
    ELSE IF x \in Observers THEN "Observer"
    ELSE "Indicator"

\* _build_graph as a function of the items' directives: the three loops.
RECURSIVE GraphDatas(_, _, _)
GraphDatas(c, g, k) ==
    IF k > Len(DataSeq) THEN g ELSE GraphDatas(c, GraphData(c, g, DataSeq[k]), k + 1)

RECURSIVE GraphObss(_, _, _)
GraphObss(c, g, k) ==
    IF k > Len(ObsSeq) THEN g ELSE GraphObss(c, GraphObs(c, g, ObsSeq[k]), k + 1)

RECURSIVE GraphInds(_, _, _)
GraphInds(c, g, k) ==
    IF k > Len(IndSeq) THEN g ELSE GraphInds(c, GraphInd(c, g, IndSeq[k]), k + 1)

BuildGraph(c) == GraphInds(c, GraphObss(c, GraphDatas(c, <<>>, 1), 1), 1)

\* The entry (name, a, strategycls, params) appended for the k-th analyzer
\* of obj.  run is the value of _num_plots when it was appended.
AnalyzerEntry(obj, k, run) == [name |-> k, owner |-> obj.id, run |-> run]

\* The directives of a strategy with both datas drawn in one pane, its
\* observers drawn as omode says and its indicators as imode says:
\* "overlay" (on the first data), "pane" (subplot) or "above" (subplot and
\* plotabove).
StrategyCfg(omode, imode) ==
    [plot |-> [x \in Items |-> TRUE],
     plotskip |-> [x \in Items |-> FALSE],
     subplot |-> [x \in Items |-> \/ x \in Observers /\ omode # "overlay"
                                  \/ x \in Indicators /\ imode # "overlay"],
     hasplotinfo |-> [x \in Items |-> TRUE],
     plotmaster |-> [x \in Items |->
                       IF x \in Datas /\ x # DataSeq[1] THEN DataSeq[1] ELSE None],
     data |-> [x \in Items |-> IF x \in Datas THEN None ELSE DataSeq[1]],
     volume |-> TRUE,
     voloverlay |-> TRUE]

\* master.plotinfo.plotabove for the items of such a strategy.
StrategyPlotabove(omode, imode) ==
    [x \in Items |-> \/ x \in Observers /\ omode = "above"
                     \/ x \in Indicators /\ imode = "above"]

\* _plot_strategy: the new page.  (The volume figures are built and never
\* added to the page; the legend, axis and hover settings do not change
\* which panes the page holds.)
PlotStrategy(page, strategy, run) ==
    IF ~strategy.hasdatas THEN page
    ELSE IF strategy.len = 0 THEN page
    ELSE LET analyzers == page.analyzers
                 \o [k \in 1..strategy.analyzers |-> AnalyzerEntry(strategy, k, run)]
             strat_figures(cds, graph) ==
                 [n \in 1..Len(graph) |->
                    [id |-> Len(page.figures) + n,
                     run |-> run,
                     strategy |-> strategy.id,
                     cds |-> cds,
                     master |-> graph[n].key,
                     slaves |-> graph[n].val,
                     master_type |-> MasterType(graph[n].key),
                     plotabove |-> StrategyPlotabove(strategy.omode, strategy.imode)[graph[n].key]]]
             Page(cds, graph) ==
                 [page EXCEPT !.figures = page.figures \o strat_figures(cds, graph),
                              !.cds = cds,
                              !.analyzers = analyzers]
         IN  Page(IF page.cds = NoneObj
                  THEN [type |-> "ColumnDataSource", of |-> strategy.id, run |-> run]
                  ELSE page.cds,
                  BuildGraph(StrategyCfg(strategy.omode, strategy.imode)))

\* The OptReturn branch of plot: the loop over obj.analyzers.getitems(),
\* from the k-th analyzer on.
RECURSIVE PlotOptReturn(_, _, _, _)
PlotOptReturn(page, obj, k, run) ==
    IF k > obj.analyzers THEN [fp |-> page, raised |-> FALSE]
    ELSE IF ~obj.strategycls THEN [fp |-> page, raised |-> TRUE]
    ELSE PlotOptReturn([page EXCEPT !.analyzers = Append(@, AnalyzerEntry(obj, k, run))],
                       obj, k + 1, run)

\* plot(obj, numfigs=numfigs, use=use) on the Bokeh object b.
Plot_ChecksLast(b, obj, numfigs, use) ==
    LET b1 == [b EXCEPT !.iplot = <<scheme.ipykernel>>]
        done == IF obj.type = "Strategy"
                THEN [b |-> [b1 EXCEPT !.fp = PlotStrategy(b.fp, obj, b.num_plots)],
                      raised |-> FALSE]
                ELSE IF obj.type = "OptReturn"
                THEN LET r == PlotOptReturn(b.fp, obj, 1, b.num_plots)
                     IN  [b |-> [b1 EXCEPT !.fp = r.fp], raised |-> r.raised]
                ELSE [b |-> b1, raised |-> TRUE]
    IN  IF numfigs > 1 \/ use # None THEN [b |-> done.b, raised |-> TRUE] ELSE done

Plot(b, obj, numfigs, use) ==
    IF numfigs > 1 THEN [b |-> b, raised |-> TRUE]
    ELSE IF use # None THEN [b |-> b, raised |-> TRUE]
    ELSE LET b1 == [b EXCEPT !.iplot = <<scheme.ipykernel>>] IN
         IF obj.type = "Strategy"
         THEN [b |-> [b1 EXCEPT !.fp = PlotStrategy(b.fp, obj, b.num_plots)],
               raised |-> FALSE]
         ELSE IF obj.type = "OptReturn"
         THEN LET r == PlotOptReturn(b.fp, obj, 1, b.num_plots)
              IN  [b |-> [b1 EXCEPT !.fp = r.fp], raised |-> r.raised]
         ELSE [b |-> b1, raised |-> TRUE]

\* for s in items: self.plot(s), from the k-th item on; the first plot that
\* raises ends the loop.
RECURSIVE PlotAll(_, _, _)
PlotAll(b, items, k) ==
    IF k > Len(items) THEN [b |-> b, raised |-> FALSE]
    ELSE LET Rest(r) == IF r.raised THEN r ELSE PlotAll(r.b, items, k + 1)
         IN  Rest(Plot(b, items[k], 1, None))

\* _get_analyzer_tab, up to the arrangement in columns: no panel for no
\* analyzers, else one panel built from the page's analyzer entries.
AnalyzerPanels(page) ==
    IF Len(page.analyzers) = 0 THEN <<>>
    ELSE <<[title |-> "Analyzers", child |-> page.analyzers]>>

IsObserver(x) == x.master_type = "Observer"

\* _model_single: the figures of the chart grid, top to bottom.
ChartColumn_AbovesOfAll(figures) ==
    LET observers == SelectSeq(figures, IsObserver)
        NotObserver(x) == x \notin Range(observers)
        IsAbove(x) == x.plotabove
        aboves == SelectSeq(figures, IsAbove)
        NotAbove(x) == x \notin Range(aboves)
    IN  observers \o aboves \o SelectSeq(SelectSeq(figures, NotObserver), NotAbove)

ChartColumn(figures) ==
    LET observers == SelectSeq(figures, IsObserver)
        NotObserver(x) == x \notin Range(observers)
        figs1 == SelectSeq(figures, NotObserver)
        IsAbove(x) == x.plotabove
        aboves == SelectSeq(figs1, IsAbove)
        NotAbove(x) == x \notin Range(aboves)
        figs2 == SelectSeq(figs1, NotAbove)
    IN  observers \o aboves \o figs2

ModelSingle(page) ==
    LET figs == ChartColumn(page.figures)
        charts == IF Len(figs) > 0 THEN <<[title |-> "Charts", child |-> figs]>> ELSE <<>>
    IN  [type |-> "Tabs", tabs |-> charts \o AnalyzerPanels(page)]

ModelTabs(page) ==
    LET IsData(x) == x.master_type = "DataBase"
        IsInd(x) == x.master_type = "Indicator"
        Panel(obj, title) ==
            IF Len(obj) = 0 THEN <<>> ELSE <<[title |-> title, child |-> obj]>>
    IN  [type |-> "Tabs",
         tabs |-> Panel(SelectSeq(page.figures, IsData), "Datas")
                  \o Panel(SelectSeq(page.figures, IsInd), "Indicators")
                  \o Panel(SelectSeq(page.figures, IsObserver), "Observers")
                  \o AnalyzerPanels(page)]

\* generate_model: it raises for a plot mode that is neither of the two.
GenerateModelRaises == scheme.plot_mode \notin {"single", "tabs"}

GenerateModel(page) ==
    IF scheme.plot_mode = "single" THEN ModelSingle(page) ELSE ModelTabs(page)

\* show(): generate the model, display it or write it to a file, then
\* _reset() and count the plot.
Show(b) ==
    IF GenerateModelRaises THEN [b |-> b, raised |-> TRUE]
    ELSE [b |-> [b EXCEPT !.fp = Reset(b.fp), !.num_plots = b.num_plots + 1],
          raised |-> FALSE]

(***************************************************************************)
(* The serve mode: run_optresult, generate_model_server and the update     *)
(* callback it registers on the selection of the result table.             *)
(***************************************************************************)

\* The value of the local idx after "for idx, strat in enumerate(self._result[0])":
\* the index of the last strategy of the first row.
InitialIdx(res) == Len(res.items[1].items) - 1

\* self._result[idx], the entries the update callback plots.
UpdateRow_First(res, idx) == res.items[1].items

UpdateRow(res, idx) == res.items[idx + 1].items

\* generate_model_server: the table of parameters is built from
\* res[idx].params for every row res and every index idx of the first row,
\* then the row self._result[idx] is plotted, with idx as the loop left it.
GenerateModelServer(b) ==
    LET rows == b.result.items
        idx == InitialIdx(b.result)
    IN  IF Len(rows[1].items) = 0
        THEN [b |-> b, raised |-> TRUE, error |-> "NameError"]
        ELSE IF \E r \in 1..Len(rows) : Len(rows[r].items) < Len(rows[1].items)
        THEN [b |-> b, raised |-> TRUE, error |-> "IndexError"]
        ELSE IF idx + 1 > Len(rows)
        THEN [b |-> [b EXCEPT !.gidx = <<idx>>], raised |-> TRUE, error |-> "IndexError"]
        ELSE LET Model(r) ==
                     IF r.raised THEN [b |-> r.b, raised |-> TRUE, error |-> "Exception"]
                     ELSE IF GenerateModelRaises
                     THEN [b |-> r.b, raised |-> TRUE, error |-> "Exception"]
                     ELSE [b |-> [r.b EXCEPT !.children =
                                               <<"selector", GenerateModel(r.b.fp)>>],
                           raised |-> FALSE, error |-> None]
             IN  Model(PlotAll([b EXCEPT !.gidx = <<idx>>], rows[idx + 1].items, 1))

\* run_optresult: after generate_model_server the application is served
\* and the callbacks run.
RunOptresult(b, res) ==
    IF Len(res.items) = 0 THEN [b |-> b, raised |-> FALSE, error |-> None]
    ELSE IF ~IsList(res.items[1]) THEN [b |-> b, raised |-> TRUE, error |-> "Exception"]
    ELSE GenerateModelServer([b EXCEPT !.result = res])

\* plot_result
PlotResult(b, res) ==
    IF ~IsList(res) THEN [b |-> b, raised |-> TRUE, error |-> "Exception"]
    ELSE IF Len(res.items) = 0 THEN [b |-> b, raised |-> FALSE, error |-> None]
    ELSE LET first == res.items[1] IN
         IF IsList(first) /\ Len(first.items) > 0
               /\ first.items[1].type \in {"OptReturn", "Strategy"}
         THEN RunOptresult(b, res)
         ELSE IF first.type = "Strategy"
         THEN LET Shown(r) ==
                      IF r.raised THEN [b |-> r.b, raised |-> TRUE, error |-> "Exception"]
                      ELSE LET sh == Show(r.b) IN
                           [b |-> sh.b, raised |-> sh.raised,
                            error |-> IF sh.raised THEN "Exception" ELSE None]
              IN  Shown(PlotAll(b, res.items, 1))
         ELSE [b |-> b, raised |-> TRUE, error |-> "Exception"]

\* update(name, old, new), with indices = new['1d']['indices']
Update(b, indices) ==
    IF Len(indices) = 0 THEN [b |-> b, raised |-> TRUE, error |-> "IndexError"]
    ELSE LET idx == indices[1]
             Model(r) ==
                 IF r.raised THEN [b |-> r.b, raised |-> TRUE, error |-> "Exception"]
                 ELSE IF GenerateModelRaises
                 THEN [b |-> r.b, raised |-> TRUE, error |-> "Exception"]
                 ELSE [b |-> [r.b EXCEPT !.children[Len(b.children)] =
                                           GenerateModel(r.b.fp)],
                       raised |-> FALSE, error |-> None]
         IN  Model(PlotAll([b EXCEPT !.fp = Reset(b.fp)], UpdateRow(b.result, idx), 1))

(***************************************************************************)
(* The objects handed to the calls.                                        *)
(***************************************************************************)

\* A strategy is kept by what tells it from the others: how its observers
\* and indicators are drawn, whether it has datas, its length in bars.
StrategyObj(id, omode, imode, hasdatas, len) ==
    [type |-> "Strategy", id |-> id, hasdatas |-> hasdatas, len |-> len,
     analyzers |-> 1, omode |-> omode, imode |-> imode]

OptReturnObj(id, strategycls, n) ==
    [type |-> "OptReturn", id |-> id, strategycls |-> strategycls, analyzers |-> n]

Junk == [type |-> "Other"]

PageStrategies ==
    {StrategyObj(<<"s", om, im>>, om, im, TRUE, 1) :
        om \in {"overlay", "pane", "above"}, im \in {"overlay", "above"}}
    \cup {StrategyObj(<<"s", "nodatas", "">>, "pane", "above", FALSE, 1),
          StrategyObj(<<"s", "nobars", "">>, "pane", "above", TRUE, 0)}

PageOptReturns ==
    {OptReturnObj(<<"opt", ToString(c), ToString(n)>>, c, n) :
        c \in BOOLEAN, n \in 0..MaxAnalyzers}

PlotObjects == PageStrategies \cup PageOptReturns \cup {Junk}

\* What plot_result is handed outside the serve mode: no list, lists it
\* rejects, the empty list, and lists of strategies.
PageResults ==
    {Junk, PyList(<<>>), PyList(<<Junk>>), PyList(<<PyList(<<>>)>>),
     PyList(<<PyList(<<Junk>>)>>)}
    \cup {PyList(<<s>>) : s \in PageStrategies}
    \cup {PyList(<<s, Junk>>) : s \in PageStrategies}

\* The Bokeh object as one record, and the step that stores one.
Bokeh ==
    [fp |-> fp, iplot |-> iplot, num_plots |-> num_plots,
     result |-> result, children |-> children, gidx |-> gidx]

Becomes(b) ==
    /\ fp' = b.fp
    /\ iplot' = b.iplot
    /\ num_plots' = b.num_plots
    /\ result' = b.result
    /\ children' = b.children
    /\ gidx' = b.gidx
    /\ UNCHANGED scheme

\* What is kept of a call's object: its type and, of an OptReturn, whether
\* it has the field strategycls and how many analyzers it carries.
ObjArgs(obj) ==
    IF obj.type = "OptReturn"
    THEN [type |-> obj.type, strategycls |-> obj.strategycls, analyzers |-> obj.analyzers]
    ELSE [type |-> obj.type]

Schemes == [plot_mode : {"single", "tabs", "other"}, ipykernel : BOOLEAN]

InitPage ==
    /\ fp = FigurePage
    /\ iplot = <<>>
    /\ num_plots = 0
    /\ scheme \in Schemes
    /\ call = [op |-> "init", raised |-> FALSE]
    /\ IdleServe
    /\ IdleResolve /\ IdleGraph /\ IdleTab

CallPlot ==
    /\ Len(fp.analyzers) < MaxPlots
    /\ \E obj \in PlotObjects, numfigs \in {1, 2}, use \in {None, "matplotlib"} :
          LET Done(r) ==
                  /\ Becomes(r.b)
                  /\ call' = [op |-> "plot", obj |-> ObjArgs(obj), numfigs |-> numfigs,
                              use |-> use, raised |-> r.raised]
          IN  Done(Plot(Bokeh, obj, numfigs, use))
    /\ UNCHANGED <<resolveVars, graphVars, tabVars>>

CallShow ==
    /\ num_plots < MaxShows
    /\ LET r == Show(Bokeh) IN
          /\ Becomes(r.b)
          /\ call' = [op |-> "show", raised |-> r.raised,
                      figures |-> Len(fp.figures), analyzers |-> Len(fp.analyzers)]
    /\ UNCHANGED <<resolveVars, graphVars, tabVars>>

CallPlotResult ==
    /\ num_plots < MaxShows
    /\ Len(fp.analyzers) < MaxPlots
    /\ \E res \in PageResults :
          LET Done(r) ==
                  /\ Becomes(r.b)
                  /\ call' = [op |-> "plot_result",
                              list |-> IsList(res),
                              first |-> IF IsList(res) /\ Len(res.items) > 0
                                        THEN res.items[1].type ELSE None,
                              inner |-> IF IsList(res) /\ Len(res.items) > 0
                                              /\ IsList(res.items[1])
                                              /\ Len(res.items[1].items) > 0
                                        THEN res.items[1].items[1].type ELSE None,
                              raised |-> r.raised]
          IN  Done(PlotResult(Bokeh, res))
    /\ UNCHANGED <<resolveVars, graphVars, tabVars>>

NextPage == CallPlot \/ CallShow \/ CallPlotResult

SpecPage == InitPage /\ [][NextPage]_vars

(***************************************************************************)
(* C4: after each show() that completes the page has no figures, no        *)
(* analyzer entries and no shared data source, and the model a show()      *)
(* generates holds only panes and analyzer entries plotted after the       *)
(* previous completed show(): entries stamped with the current             *)
(* _num_plots.                                                             *)
(***************************************************************************)
C4_ShowDiscardsPage ==
    /\ (call.op = "show" /\ ~call.raised) =>
          /\ fp.figures = <<>>
          /\ fp.analyzers = <<>>
          /\ fp.cds = NoneObj
          /\ num_plots > 0
    /\ ~GenerateModelRaises =>
          LET tabs == GenerateModel(fp).tabs IN
          \A t \in 1..Len(tabs) : \A n \in 1..Len(tabs[t].child) :
              tabs[t].child[n].run = num_plots

\* A second show() has completed, of a page that held panes and analyzer
\* entries.
C4_Witness ==
    /\ call.op = "show"
    /\ ~call.raised
    /\ num_plots = 2
    /\ call.figures > 1
    /\ call.analyzers > 0

(***************************************************************************)
(* C6: an invalid request raises and leaves the page's figures, analyzer   *)
(* entries and shared data source as they were: plot() with numfigs > 1,   *)
(* with use not None or with an object that is neither a Strategy nor an   *)
(* OptReturn; plot_result() with a non-list or with a non-empty list whose *)
(* first element is neither a Strategy nor a non-empty list of             *)
(* OptReturn/Strategy.                                                     *)
(***************************************************************************)
InvalidPlot(c) ==
    /\ c.op = "plot"
    /\ \/ c.numfigs > 1
       \/ c.use # None
       \/ c.obj.type \notin {"Strategy", "OptReturn"}

InvalidPlotResult(c) ==
    /\ c.op = "plot_result"
    /\ \/ ~c.list
       \/ /\ c.first # None
          /\ c.first # "Strategy"
          /\ ~(c.first = "list" /\ c.inner \in {"OptReturn", "Strategy"})

C6_InvalidRequestsChangeNothing ==
    [][(InvalidPlot(call') \/ InvalidPlotResult(call')) =>
          /\ call'.raised
          /\ fp'.figures = fp.figures
          /\ fp'.analyzers = fp.analyzers
          /\ fp'.cds = fp.cds]_vars

\* plot() of a strategy with numfigs = 2 has raised on a page
\* that holds panes and analyzer entries.
C6_Witness ==
    /\ InvalidPlot(call)
    /\ call.numfigs > 1
    /\ call.obj.type = "Strategy"
    /\ call.raised
    /\ Len(fp.figures) > 0
    /\ Len(fp.analyzers) > 0

(***************************************************************************)
(* C7: plot() of an OptReturn that lacks the field strategycls raises and  *)
(* appends no analyzer entry, whatever number of analyzers it carries.     *)
(***************************************************************************)
C7_MalformedOptReturnRaises ==
    [][(/\ call'.op = "plot"
        /\ call'.obj.type = "OptReturn"
        /\ ~call'.obj.strategycls) =>
          /\ call'.raised
          /\ fp'.analyzers = fp.analyzers]_vars

(***************************************************************************)
(* C8: the chart column of _model_single holds every figure of the page    *)
(* exactly once: the panes whose master is an observer, then the other     *)
(* panes flagged plot-above, then the rest, each group in page order.      *)
(***************************************************************************)
PaneGroup(f) ==
    IF f.master_type = "Observer" THEN 1 ELSE IF f.plotabove THEN 2 ELSE 3

PagePosition(f) == CHOOSE n \in 1..Len(fp.figures) : fp.figures[n] = f

SingleChartColumn ==
    LET tabs == ModelSingle(fp).tabs IN
    IF Len(tabs) > 0 /\ tabs[1].title = "Charts" THEN tabs[1].child ELSE <<>>

C8_SingleColumnOrder ==
    LET col == SingleChartColumn IN
    /\ Len(col) = Len(fp.figures)
    /\ \A n \in 1..Len(fp.figures) :
          Cardinality({m \in 1..Len(col) : col[m] = fp.figures[n]}) = 1
    /\ \A i \in 1..Len(col) : \A j \in 1..Len(col) :
          i < j =>
             /\ PaneGroup(col[i]) <= PaneGroup(col[j])
             /\ PaneGroup(col[i]) = PaneGroup(col[j]) =>
                   PagePosition(col[i]) < PagePosition(col[j])

\* The page holds, after a data pane, an observer pane flagged plot-above
\* and an indicator pane flagged plot-above, from two strategies.
C8_Witness ==
    /\ Len(fp.figures) >= 5
    /\ fp.figures[1].master_type = "DataBase"
    /\ \E n \in 1..Len(fp.figures) :
          fp.figures[n].master_type = "Observer" /\ fp.figures[n].plotabove
    /\ \E n \in 1..Len(fp.figures) :
          fp.figures[n].master_type = "Observer" /\ ~fp.figures[n].plotabove
    /\ \E n \in 1..Len(fp.figures) :
          fp.figures[n].master_type = "Indicator" /\ fp.figures[n].plotabove
    /\ SingleChartColumn # fp.figures

(***************************************************************************)
(* The serve mode as a session: run_optresult on a fresh Bokeh object,     *)
(* then the selections of the user.                                        *)
(***************************************************************************)
MaxRows == 2
MaxStrats == 2

\* The entry at row r, position s of an optimization result: an OptReturn
\* with the field strategycls, one without it, or a Strategy; each carries
\* one analyzer.
ServeKinds == {"optreturn", "nostrategycls", "strategy"}

ServeObj(kind, r, s) ==
    IF kind = "optreturn" THEN OptReturnObj(<<r, s>>, TRUE, 1)
    ELSE IF kind = "nostrategycls" THEN OptReturnObj(<<r, s>>, FALSE, 1)
    ELSE StrategyObj(<<r, s>>, "pane", "above", TRUE, 1)

\* The result of an optimization run: nr rows of ns entries, the entries
\* of the kinds k says.
OptResult(nr, ns, k) ==
    PyList([r \in 1..nr |-> PyList([s \in 1..ns |-> ServeObj(k[r][s], r, s)])])

\* The application is served by the Server (no notebook kernel).
InitServe ==
    /\ fp = FigurePage
    /\ iplot = <<>>
    /\ num_plots = 0
    /\ scheme \in {sch \in Schemes : ~sch.ipykernel}
    /\ call = [op |-> "init", raised |-> FALSE]
    /\ IdleServe
    /\ IdleResolve /\ IdleGraph /\ IdleTab

\* run_optresult(res) with res the result of an optimization run.
CallRunOptresult ==
    /\ call.op = "init"
    /\ \E nr \in 1..MaxRows, ns \in 1..MaxStrats :
          \E k \in [1..nr -> [1..ns -> ServeKinds]] :
             LET Done(r) ==
                     /\ Becomes(r.b)
                     /\ call' = [op |-> "run_optresult", raised |-> r.raised,
                                 error |-> r.error]
             IN  Done(RunOptresult(Bokeh, OptResult(nr, ns, k)))
    /\ UNCHANGED <<resolveVars, graphVars, tabVars>>

\* run_optresult(res) with the empty list, or a list that holds no row.
CallRunOptresultOther ==
    /\ call.op = "init"
    /\ \E res \in {PyList(<<>>), PyList(<<Junk>>)} :
          LET Done(r) ==
                  /\ Becomes(r.b)
                  /\ call' = [op |-> "run_optresult", raised |-> r.raised,
                              error |-> r.error]
          IN  Done(RunOptresult(Bokeh, res))
    /\ UNCHANGED <<resolveVars, graphVars, tabVars>>

\* The callback is registered once generate_model_server has built the
\* layout; the table offers the rows of the result, and a deselection
\* leaves no index.
Selected ==
    /\ call.op \in {"run_optresult", "update"}
    /\ children # <<>>
    /\ \E indices \in {<<>>} \cup {<<i>> : i \in 0..(Len(result.items) - 1)} :
          LET Done(r) ==
                  /\ Becomes(r.b)
                  /\ call' = [op |-> "update", indices |-> indices,
                              raised |-> r.raised, error |-> r.error]
          IN  Done(Update(Bokeh, indices))
    /\ UNCHANGED <<resolveVars, graphVars, tabVars>>

NextServe == CallRunOptresult \/ CallRunOptresultOther \/ Selected

SpecServe == InitServe /\ [][NextServe]_vars

\* The analyzer entries that plotting the entries of a row produces, as
\* <<owner, name>> pairs.
RECURSIVE RowAnalyzers(_)
RowAnalyzers(row) ==
    IF row = <<>> THEN <<>>
    ELSE [k \in 1..Head(row).analyzers |-> <<Head(row).id, k>>] \o RowAnalyzers(Tail(row))

(***************************************************************************)
(* C5, as amended: when the user selects row idx and plotting every entry  *)
(* of result[idx] succeeds, then after the callback the page holds exactly *)
(* the analyzer entries of the entries of result[idx], nothing of another  *)
(* row, and the last child of the served layout is the model generated     *)
(* from that page.  When plotting an entry raises, the callback ends       *)
(* there: the page holds the entries of result[idx] plotted before it,     *)
(* still nothing of another row, and the layout keeps its children.        *)
(***************************************************************************)
PageAnalyzers(page) ==
    [n \in 1..Len(page.analyzers) |-> <<page.analyzers[n].owner, page.analyzers[n].name>>]

C5_SelectionRendersRow ==
    [][(call'.op = "update" /\ Len(call'.indices) > 0) =>
          LET row == result.items[call'.indices[1] + 1].items
              ids == {row[s].id : s \in 1..Len(row)}
              all == RowAnalyzers(row)
              got == PageAnalyzers(fp')
          IN  /\ result' = result
              /\ \A n \in 1..Len(fp'.figures) : fp'.figures[n].strategy \in ids
              /\ ~call'.raised =>
                    /\ got = all
                    /\ Len(children') = 2
                    /\ children'[1] = children[1]
                    /\ children'[2] = GenerateModel(fp')
              /\ call'.raised =>
                    /\ Len(got) < Len(all)
                    /\ got = SubSeq(all, 1, Len(got))
                    /\ children' = children]_vars

(***************************************************************************)
(* C5, as claimed: after every selection callback for row idx the page     *)
(* holds exactly the analyzer entries of the entries of result[idx] and    *)
(* the last child of the served layout is the model generated from that    *)
(* page.                                                                   *)
(***************************************************************************)
C5_AsClaimed ==
    (call.op = "update" /\ Len(call.indices) > 0) =>
        /\ PageAnalyzers(fp) = RowAnalyzers(result.items[call.indices[1] + 1].items)
        /\ children[Len(children)] = GenerateModel(fp)

\* A row other than the one rendered first has been selected and rendered,
\* and both rows carry analyzers.
C5_Witness ==
    /\ call.op = "update"
    /\ ~call.raised
    /\ Len(call.indices) > 0
    /\ call.indices[1] # gidx[1]
    /\ Len(fp.analyzers) > 1
    /\ Len(fp.figures) > 0

(***************************************************************************)
(* C10: for every result run_optresult accepts (a non-empty list of        *)
(* non-empty rows of OptReturn/Strategy entries) the row index of the      *)
(* initial rendering in generate_model_server is in 0 .. len(result)-1,    *)
(* so the initial rendering does not fail with an index out of range.      *)
(***************************************************************************)
C10_InitialRowInRange ==
    (call.op = "run_optresult" /\ gidx # <<>>) =>
        /\ gidx[1] \in 0..(Len(result.items) - 1)
        /\ call.error # "IndexError"

====
